---- MODULE Spec2Model ----
(***************************************************************************)
(* Model of the circular angle slider (src/src/widgets.rs,                 *)
(* circular_slider_float) as it is called once per UI frame by the host    *)
(* panel (src/src/ui.rs, Panel::CircleSliders).                            *)
(*                                                                         *)
(* Units.  Angles are integers in millidegrees (0.001 degree), so the      *)
(* change threshold 0.001 is 1 and the snap increment 11.25 is 11250.      *)
(* Lengths are integers in quarter pixels, so radius 29.25 is 117.         *)
(* An f32 is a record [k, m]: k = "fin" with m the millidegrees,           *)
(* k = "nan", or k = "inf" with m the sign.                                *)
(***************************************************************************)
EXTENDS Integers, FiniteSets, Sequences, TLC

----------------------------------------------------------------------------
(* f32 values and comparisons (IEEE: every comparison with NaN is false)   *)

Fin(m) == [k |-> "fin", m |-> m]
NaN == [k |-> "nan", m |-> 0]
PosInf == [k |-> "inf", m |-> 1]
NegInf == [k |-> "inf", m |-> -1]

IsNaN(a) == a.k = "nan"

\* a < b on f32
FLt(a, b) ==
    IF IsNaN(a) \/ IsNaN(b) THEN FALSE
    ELSE IF a.k = "inf" THEN a.m < 0 /\ ~(b.k = "inf" /\ b.m < 0)
    ELSE IF b.k = "inf" THEN b.m > 0
    ELSE a.m < b.m

\* a <= b on f32
FLe(a, b) == ~IsNaN(a) /\ ~IsNaN(b) /\ ~FLt(b, a)

Abs(n) == IF n < 0 THEN -n ELSE n

----------------------------------------------------------------------------
(* Call-site parameters                                                    *)

v_max == 180000
v_min_swapped == v_max + 1
v_min == -180000
radius == 117

(* Widget geometry *)
inner_radius == 60
OuterPad == 100
outer_radius == radius + OuterPad
ContainerPad == 80
container_width == radius * 2 + ContainerPad
container_height == radius * 2 + ContainerPad
text_input_width == 180
text_input_height == 80

(* Drag arithmetic *)
QuarterTurn == 90000
HalfTurn == 180000
FullTurn == 360000
SnapIncrement == 11250
ChangeEpsilon == 1

----------------------------------------------------------------------------
(* Pointer positions.  A pointer is given relative to the widget center in *)
(* polar form: dist (quarter pixels) and dir, the direction of             *)
(* (rel_x, rel_y) in millidegrees as atan2 reports it (screen y grows      *)
(* downwards, so -90000 is straight up).  DirTable holds cos and sin of    *)
(* each direction scaled by 1000.                                     *)

Dirs == {-180000, -90000, -84375, -45000, -44999, -44998, -40000,
         0, 90000, 95000, 180000}

DirTable ==
    [d \in Dirs |->
        CASE d = -180000 -> [cos |-> -1000, sin |-> 0]
          [] d = -90000  -> [cos |-> 0, sin |-> -1000]
          [] d = -84375  -> [cos |-> 98, sin |-> -995]
          [] d = -45000  -> [cos |-> 707, sin |-> -707]
          [] d = -44999  -> [cos |-> 707, sin |-> -707]
          [] d = -44998  -> [cos |-> 707, sin |-> -707]
          [] d = -40000  -> [cos |-> 766, sin |-> -643]
          [] d = 0       -> [cos |-> 1000, sin |-> 0]
          [] d = 90000   -> [cos |-> 0, sin |-> 1000]
          [] d = 95000   -> [cos |-> -87, sin |-> 996]
          [] d = 180000  -> [cos |-> -1000, sin |-> 0]]

Pt(dist, dir) == [dist |-> dist, dir |-> dir]

\* Where the pointer is tried during a drag: every direction on the ring
\* itself, and the center.
DragPoints == {Pt(radius, d) : d \in Dirs} \cup {Pt(0, 0)}

\* Where a press is tried: on the ring, two points nearer than inner_radius
\* (one on the text field, one below it), the inner edge of the grab zone,
\* a corner of the rect beyond outer_radius, and a point outside the rect.
PressPoints ==
    {Pt(radius, -45000), Pt(48, 0), Pt(48, 90000), Pt(inner_radius, 90000),
     Pt(220, -45000), Pt(400, 0)}

\* mouse_pos.x - center.x and mouse_pos.y - center.y, scaled by 1000
RelX(p) == p.dist * DirTable[p.dir].cos
RelY(p) == p.dist * DirTable[p.dir].sin

\* (mouse_pos - center).length()
distance_from_center(p) == p.dist

\* The rect returned by allocate_exact_size, centered on center
InRect(p) ==
    /\ 2 * Abs(RelX(p)) <= container_width * 1000
    /\ 2 * Abs(RelY(p)) <= container_height * 1000

\* The rect of the text field overlaid at the center
InTextRect(p) ==
    /\ 2 * Abs(RelX(p)) <= text_input_width * 1000
    /\ 2 * Abs(RelY(p)) <= text_input_height * 1000

\* response.hovered()
Hovered(p) == InRect(p)

is_mouse_in_grab_zone(p) ==
    /\ distance_from_center(p) >= inner_radius
    /\ distance_from_center(p) <= outer_radius
    /\ Hovered(p)

\* A press lands on the slider's own response (Sense::click_and_drag) when it
\* is inside the allocated rect and not on the text field added on top of it.
PressHitsSlider(p) == InRect(p) /\ ~InTextRect(p)
PressHitsText(p) == InRect(p) /\ InTextRect(p)

----------------------------------------------------------------------------
(* Drag arithmetic                                                         *)

\* mouse_rel_y.atan2(mouse_rel_x) in millidegrees; atan2(0, 0) is 0
Atan2(p) == IF p.dist = 0 THEN 0 ELSE p.dir

\* mouse_angle * 180 / PI with mouse_angle = atan2 + PI/2
MouseDegrees(p) == Atan2(p) + QuarterTurn

WrapInclusive(degrees) ==
    IF degrees >= HalfTurn THEN degrees - FullTurn ELSE degrees

Wrap(degrees) == IF degrees > HalfTurn THEN degrees - FullTurn ELSE degrees

\* f32::round of n/d (d > 0): nearest integer, halves away from zero
Round(n, d) ==
    IF n >= 0 THEN (2 * n + d) \div (2 * d)
    ELSE -((2 * (-n) + d) \div (2 * d))

SnapWrongStep(degrees) == Round(degrees, SnapIncrement) * (SnapIncrement + 1000)

Snap(degrees) == Round(degrees, SnapIncrement) * SnapIncrement

\* f32::clamp asserts min <= max
ClampPanics(min, max) == min > max

\* f32::clamp(self, min, max) with finite min <= max; NaN passes through
Clamp(x, min, max) ==
    IF FLt(x, Fin(min)) THEN Fin(min)
    ELSE IF FLt(Fin(max), x) THEN Fin(max)
    ELSE x

\* degrees after the wrap alone
DegreesUnsnapped(p, snap) == Wrap(MouseDegrees(p))

DegreesSnapFirst(p, snap) ==
    IF snap THEN Wrap(Snap(MouseDegrees(p))) ELSE Wrap(MouseDegrees(p))

\* degrees after the wrap and the optional snap (lines 113-119)
Degrees(p, snap) ==
    IF snap THEN Snap(Wrap(MouseDegrees(p))) ELSE Wrap(MouseDegrees(p))

DiffersInclusive(new_value, val) ==
    val.k = "fin" /\ Abs(new_value.m - val.m) >= ChangeEpsilon

\* (new_value - *value).abs() > 0.001; false when *value is NaN
Differs(new_value, val) ==
    val.k = "fin" /\ Abs(new_value.m - val.m) > ChangeEpsilon

\* The drag branch (lines 108-126): the value it leaves and whether it
\* marked the response changed.
DragPath(val, dragged, p, snap) ==
    LET new_value == Clamp(Fin(Degrees(p, snap)), v_min, v_max)
        commit == dragged /\ Differs(new_value, val)
    IN  [value |-> IF commit THEN new_value ELSE val,
         changed |-> commit,
         new_value |-> new_value]

----------------------------------------------------------------------------
(* The text field.  A text is kept as what parse::<f32>() makes of it:     *)
(* "garbage" (an Err, such as "abc"), a finite number, "NaN" or an         *)
(* infinity ("inf", "-inf").  NoText stands for no edit.                   *)

MaxTyped == 2
TypedStep == 100000

NoText == [kind |-> "none", num |-> 0]
Garbage == [kind |-> "garbage", num |-> 0]
NumText(n) == [kind |-> "num", num |-> n]
NanText == [kind |-> "nan", num |-> 0]
InfText(sign) == [kind |-> "inf", num |-> sign]

\* The texts a user may produce in the field within one frame
TypedTexts ==
    {Garbage, NanText, InfText(1), InfText(-1)}
        \cup {NumText(i * TypedStep) : i \in -MaxTyped .. MaxTyped}

\* format!("{:.2}", value): the nearest hundredth of a degree.  A value half
\* way between two hundredths goes to either (the binary f32 behind the
\* millidegree decides), chosen by tie_up.
Format2(val, tie_up) ==
    IF IsNaN(val) THEN NanText
    ELSE LET q == val.m \div 10
             r == val.m % 10
         IN  IF r < 5 THEN NumText(q * 10)
             ELSE IF r > 5 THEN NumText((q + 1) * 10)
             ELSE IF tie_up THEN NumText((q + 1) * 10)
             ELSE NumText(q * 10)

\* val is half way between two hundredths
IsTie(val) == val.k = "fin" /\ val.m % 10 = 5

\* text_value.parse::<f32>(): "NaN" and "inf" parse to Ok
Parse(t) ==
    CASE t.kind = "num" -> [ok |-> TRUE, val |-> Fin(t.num)]
      [] t.kind = "nan" -> [ok |-> TRUE, val |-> NaN]
      [] t.kind = "inf" -> [ok |-> TRUE, val |-> IF t.num > 0 THEN PosInf ELSE NegInf]
      [] OTHER -> [ok |-> FALSE, val |-> NaN]

\* The text branch (lines 148-153)
TextPath(val, lost, text) ==
    LET parsed == Parse(text)
        commit == lost /\ parsed.ok
    IN  [value |-> IF commit THEN Clamp(parsed.val, v_min, v_max) ELSE val,
         changed |-> commit]

\* One call of circular_slider_float: the drag branch, then the text field
\* (text_value is formatted from the value the drag branch left, and holds
\* the edit of this frame if there is one), then the text branch.
SliderCall(val, is_dragged, p, snap, lost, edit, tie_up) ==
    LET d == DragPath(val, is_dragged, p, snap)
        text == IF edit = NoText THEN Format2(d.value, tie_up) ELSE edit
        t == TextPath(d.value, lost, text)
        panic == (is_dragged \/ t.changed) /\ ClampPanics(v_min, v_max)
    IN  [value |-> IF panic THEN val ELSE t.value,
         changed |-> ~panic /\ (d.changed \/ t.changed),
         drag_wrote |-> ~panic /\ d.changed,
         text_wrote |-> ~panic /\ t.changed,
         new_value |-> d.new_value,
         text_value |-> text,
         panic |-> panic]

----------------------------------------------------------------------------
(* State                                                                   *)

VARIABLES
    value,            \* the f32 behind &mut value
    enable_snapping,  \* WidgetDemoState.enable_snapping
    dragging,         \* egui: the slider's response is being dragged
    focused,          \* egui: the text field has keyboard focus
    panicked,         \* a call panicked
    \* what the last call saw and did
    old_value,        \* *value when the call began
    changed,          \* response.changed() of the returned response
    is_dragged,       \* response.dragged() in the call
    mouse_pos,        \* the pointer, relative to center
    new_value,        \* the drag candidate, NoCandidate outside a drag frame
    lost_focus,       \* text_response.lost_focus() in the call
    text_value,       \* text_value when the text branch ran
    drag_wrote,       \* the drag branch assigned *value
    text_wrote,       \* the text branch assigned *value
    \* history of the interaction
    edited,           \* the user edited the text in this call
    pending,          \* the user's latest edit while the field has had focus
    press_in_grab_zone \* is_mouse_in_grab_zone in the frame of the press
                       \* that began the current drag

sliderVars ==
    <<value, enable_snapping, dragging, focused, panicked, old_value,
      changed, is_dragged, mouse_pos, new_value, lost_focus, text_value,
      drag_wrote, text_wrote, edited, pending, press_in_grab_zone>>

\* The two Orientation Balls of Panel::QuaternionBall (1: Child A, 2: Child B)
VARIABLES
    orientation,      \* per ball: mode.child_x.orientation
    axis_feedback,    \* per ball: the (lat, lon) of the X, Y and Z axis
    locked_axis,      \* per ball: qballN_locked_axis, -1 when none
    initial_distance, \* per ball: qballN_initial_distance
    qball_snapping,   \* WidgetDemoState.qball_snapping
    pointer_down,     \* per ball: the pointer button is held, as its calls saw it
    \* what the last call of quaternion_ball saw and did
    qb_id,            \* the ball it was made on, 0 before any call
    qb_event,         \* "none", "press", "held" or "release"
    qb_ptr,           \* the pointer, relative to the ball's center
    qb_old,           \* the ball's orientation and locked_axis when it began
    qb_changed,       \* the changed flag it returned
    qb_rotations      \* the number of orientation changes so far, capped

qbVars ==
    <<orientation, axis_feedback, locked_axis, initial_distance,
      qball_snapping, pointer_down, qb_id, qb_event, qb_ptr, qb_old,
      qb_changed, qb_rotations>>

\* The sphere drag of drag.rs
VARIABLES
    drag_state,       \* DragState: dragging, drag_offset, drag_plane_distance
    translation,      \* the DraggableSphere's Transform.translation
    left_pressed,     \* ButtonInput: the left button is down
    \* what the last frame of the two drag systems saw and did
    just_pressed,     \* mouse_button.just_pressed(MouseButton::Left)
    just_released,    \* mouse_button.just_released(MouseButton::Left)
    cursor_position,  \* window.cursor_position() as the ray through it
    egui_place,       \* where ctx.pointer_latest_pos() lies
    old_drag_state,   \* drag_state when the frame began
    old_translation,  \* translation when the frame began
    wrote_transform,  \* update_drag_position assigned the translation
    presses           \* the presses so far

dragVars ==
    <<drag_state, translation, left_pressed, just_pressed, just_released,
      cursor_position, egui_place, old_drag_state, old_translation,
      wrote_transform, presses>>

\* The dock of dock.rs
VARIABLES
    dock_tree,        \* DockResource.tree: the leaves, each with its tabs
    focused_leaf,     \* the main surface's focused leaf, 0 when none
    all_hidden,       \* DockResource.all_hidden
    menu_click        \* the Windows-menu entry the last frame clicked

dockVars == <<dock_tree, focused_leaf, all_hidden, menu_click>>

\* The genome and the modes panel (genome/mod.rs, ui.rs)
VARIABLES
    modes,                  \* CurrentGenome.genome.modes
    selected_mode_index,    \* CurrentGenome.selected_mode_index
    copy_into_dialog_open,  \* WidgetDemoState.copy_into_dialog_open
    copy_into_source,       \* WidgetDemoState.copy_into_source
    mode_event,             \* what the last frame of the panels handled
    mode_frames             \* the frames of the panels taken so far

modeVars == <<modes, selected_mode_index, copy_into_dialog_open,
              copy_into_source, mode_event, mode_frames>>

\* What a frame of the slider or of the balls leaves alone
appVars == <<dragVars, dockVars, modeVars>>

vars == <<sliderVars, qbVars, appVars>>

NoCandidate == [k |-> "none", m |-> 0]

\* angle1 / parent_split_direction start at 0.0, angle2 at 45.0
InitValues == {Fin(0), Fin(45000)}

SliderInit ==
    /\ value \in InitValues
    /\ enable_snapping = TRUE
    /\ dragging = FALSE
    /\ focused = FALSE
    /\ panicked = FALSE
    /\ old_value = value
    /\ changed = FALSE
    /\ is_dragged = FALSE
    /\ mouse_pos = Pt(0, 0)
    /\ new_value = NoCandidate
    /\ lost_focus = FALSE
    /\ text_value = NoText
    /\ drag_wrote = FALSE
    /\ text_wrote = FALSE
    /\ edited = FALSE
    /\ pending = NoText
    /\ press_in_grab_zone = FALSE

\* The part of a frame that is the call itself
Call(drag, p, snap, lost, edit) ==
    \E tie_up \in BOOLEAN :
        LET r == SliderCall(value, drag, p, snap, lost, edit, tie_up)
        IN  /\ tie_up => IsTie(DragPath(value, drag, p, snap).value)
            /\ value' = r.value
            /\ old_value' = value
            /\ changed' = r.changed
            /\ is_dragged' = drag
            /\ mouse_pos' = p
            /\ new_value' = IF drag THEN r.new_value ELSE NoCandidate
            /\ lost_focus' = lost
            /\ text_value' = r.text_value
            /\ drag_wrote' = r.drag_wrote
            /\ text_wrote' = r.text_wrote
            /\ edited' = (edit # NoText)
            /\ panicked' = r.panic

\* pending is history of the current stay of the focus: it is kept through
\* the frame that ends the stay and forgotten after it.
KeepPending == pending' = IF focused THEN pending ELSE NoText

----------------------------------------------------------------------------
(* Frames.  Each action is one UI frame, that is one call of                *)
(* circular_slider_float, under the input egui hands it in that frame.     *)

\* A frame with no button or key event and no drag in progress
IdleFrame ==
    /\ ~panicked /\ ~dragging
    /\ Call(FALSE, mouse_pos, enable_snapping, FALSE, NoText)
    /\ KeepPending
    /\ UNCHANGED <<enable_snapping, dragging, focused, press_in_grab_zone>>
    /\ UNCHANGED <<qbVars, appVars>>

\* The frame of a pointer press at p: on the text field it gives it the
\* focus, on the rest of the slider's rect it begins a drag of the slider
\* (response.dragged() holds from the next frame on); a press off the text
\* field takes the focus from it.
PressFrame ==
    /\ ~panicked /\ ~dragging
    /\ \E p \in PressPoints :
        /\ Call(FALSE, p, enable_snapping, focused /\ ~PressHitsText(p), NoText)
        /\ dragging' = PressHitsSlider(p)
        /\ focused' = PressHitsText(p)
        /\ press_in_grab_zone' = (PressHitsSlider(p) /\ is_mouse_in_grab_zone(p))
    /\ KeepPending
    /\ UNCHANGED enable_snapping
    /\ UNCHANGED <<qbVars, appVars>>

\* A frame while the slider is dragged, the pointer anywhere
DragFrame ==
    /\ ~panicked /\ dragging
    /\ \E p \in DragPoints : Call(TRUE, p, enable_snapping, FALSE, NoText)
    /\ KeepPending
    /\ UNCHANGED <<enable_snapping, dragging, focused, press_in_grab_zone>>
    /\ UNCHANGED <<qbVars, appVars>>

\* The frame of the pointer release that ends a drag
ReleaseFrame ==
    /\ ~panicked /\ dragging
    /\ Call(FALSE, mouse_pos, enable_snapping, FALSE, NoText)
    /\ dragging' = FALSE
    /\ press_in_grab_zone' = FALSE
    /\ KeepPending
    /\ UNCHANGED <<enable_snapping, focused>>
    /\ UNCHANGED <<qbVars, appVars>>

\* A frame in which the user edits the focused text field to t
TypeFrame ==
    /\ ~panicked /\ ~dragging /\ focused
    /\ \E t \in TypedTexts :
        /\ Call(FALSE, mouse_pos, enable_snapping, FALSE, t)
        /\ pending' = t
    /\ UNCHANGED <<enable_snapping, dragging, focused, press_in_grab_zone>>
    /\ UNCHANGED <<qbVars, appVars>>

\* A frame in which the user edits the text to t and Enter arrives as well
TypeCommitFrame ==
    /\ ~panicked /\ ~dragging /\ focused
    /\ \E t \in TypedTexts :
        /\ Call(FALSE, mouse_pos, enable_snapping, TRUE, t)
        /\ pending' = t
    /\ focused' = FALSE
    /\ UNCHANGED <<enable_snapping, dragging, press_in_grab_zone>>
    /\ UNCHANGED <<qbVars, appVars>>

\* A frame in which the focused text field loses the focus (Enter, Escape,
\* Tab) with no edit in that frame
BlurFrame ==
    /\ ~panicked /\ ~dragging /\ focused
    /\ Call(FALSE, mouse_pos, enable_snapping, TRUE, NoText)
    /\ focused' = FALSE
    /\ KeepPending
    /\ UNCHANGED <<enable_snapping, dragging, press_in_grab_zone>>
    /\ UNCHANGED <<qbVars, appVars>>

\* The frame of a click on the "Enable Snapping" checkbox drawn before the
\* slider; the click takes the focus from the text field.
ToggleSnapping ==
    /\ ~panicked /\ ~dragging
    /\ enable_snapping' = ~enable_snapping
    /\ Call(FALSE, mouse_pos, ~enable_snapping, focused, NoText)
    /\ focused' = FALSE
    /\ KeepPending
    /\ UNCHANGED <<dragging, press_in_grab_zone>>
    /\ UNCHANGED <<qbVars, appVars>>

----------------------------------------------------------------------------
(* Orientation Ball (quaternion_ball).  The widget's body is not in the    *)
(* sources; it is modelled from its specification (section 4.2) and from   *)
(* its call sites in ui.rs.  Directions are the six axis directions        *)
(* <<x, y, z>> with entries in -1 .. 1; an orientation is a quaternion     *)
(* (w, x, y, z) / sqrt(n) with integer w, x, y, z, n, so that the          *)
(* rotations between axis directions are exact.  Screen lengths are in     *)
(* quarter pixels, relative to the ball's center, y pointing down.         *)

Balls == {1, 2}

\* AxisId: 0 = X, 1 = Y, 2 = Z; locked_axis is -1 when no axis is locked
Axes == {0, 1, 2}
NoAxis == -1

Basis(a) == [i \in 1 .. 3 |-> IF i = a + 1 THEN 1 ELSE 0]

CanonDirs == {<<1, 0, 0>>, <<-1, 0, 0>>, <<0, 1, 0>>, <<0, -1, 0>>,
              <<0, 0, 1>>, <<0, 0, -1>>}

Dot(a, b) == a[1] * b[1] + a[2] * b[2] + a[3] * b[3]

\* the cross product with its operands exchanged
CrossReversed(a, b) ==
    <<a[3] * b[2] - a[2] * b[3],
      a[1] * b[3] - a[3] * b[1],
      a[2] * b[1] - a[1] * b[2]>>

Cross(a, b) ==
    <<a[2] * b[3] - a[3] * b[2],
      a[3] * b[1] - a[1] * b[3],
      a[1] * b[2] - a[2] * b[1]>>

Quat(w, x, y, z, n) == [w |-> w, x |-> x, y |-> y, z |-> z, n |-> n]

\* Quat::IDENTITY
IDENTITY == Quat(1, 0, 0, 0, 1)

\* |q|^2 of the quaternion q stands for, times q.n
NormSq(q) == q.w * q.w + q.x * q.x + q.y * q.y + q.z * q.z

\* The same quaternion written with components half as large
Halve(q) ==
    IF /\ q.w % 2 = 0 /\ q.x % 2 = 0 /\ q.y % 2 = 0 /\ q.z % 2 = 0
       /\ q.n % 4 = 0
    THEN Quat(q.w \div 2, q.x \div 2, q.y \div 2, q.z \div 2, q.n \div 4)
    ELSE q

\* The Hamilton product a * b
QMul(a, b) ==
    Halve(Halve(Quat(
        a.w * b.w - a.x * b.x - a.y * b.y - a.z * b.z,
        a.w * b.x + a.x * b.w + a.y * b.z - a.z * b.y,
        a.w * b.y - a.x * b.z + a.y * b.w + a.z * b.x,
        a.w * b.z + a.x * b.y - a.y * b.x + a.z * b.w,
        a.n * b.n)))

\* q * v: the rows of the rotation matrix of q applied to v.  The division
\* by q.n is exact for a quaternion of norm 1.
RotateVec(q, v) ==
    LET ww == q.w * q.w
        xx == q.x * q.x
        yy == q.y * q.y
        zz == q.z * q.z
        xy == q.x * q.y
        xz == q.x * q.z
        yz == q.y * q.z
        wx == q.w * q.x
        wy == q.w * q.y
        wz == q.w * q.z
    IN  <<((ww + xx - yy - zz) * v[1] + 2 * (xy - wz) * v[2]
              + 2 * (xz + wy) * v[3]) \div q.n,
          (2 * (xy + wz) * v[1] + (ww - xx + yy - zz) * v[2]
              + 2 * (yz - wx) * v[3]) \div q.n,
          (2 * (xz - wy) * v[1] + 2 * (yz + wx) * v[2]
              + (ww - xx - yy + zz) * v[3]) \div q.n>>

\* The direction of axis a of the frame q
AxisDir(q, a) == RotateVec(q, Basis(a))

\* The minimal rotation, left unnormalised
RotationArcUnnormalised(from, to, ortho) ==
    IF Dot(from, to) = -1
    THEN Quat(0, ortho[1], ortho[2], ortho[3], 1)
    ELSE LET c == Cross(from, to)
         IN  Quat(1 + Dot(from, to), c[1], c[2], c[3], 1)

\* The minimal rotation dq that takes direction from onto direction to:
\* (1 + from.to, from x to) normalised; the half turn about ortho, a
\* direction perpendicular to from, when to is opposite to from.
RotationArc(from, to, ortho) ==
    IF Dot(from, to) = -1
    THEN Quat(0, ortho[1], ortho[2], ortho[3], 1)
    ELSE LET c == Cross(from, to)
             w == 1 + Dot(from, to)
         IN  Halve(Quat(w, c[1], c[2], c[3], w * w + Dot(c, c)))

\* The axes a half turn from from to to may be made about
OrthoChoices(from, to) ==
    IF Dot(from, to) = -1
    THEN {c \in CanonDirs : Dot(c, from) = 0}
    ELSE {<<0, 0, 0>>}

\* ball_radius at its lower limit, 32.5 pixels
ball_radius == 130

\* The fixed pick radius, 20 pixels
PickRadius == 80

ScreenPt(x, y) == [x |-> x, y |-> y]

\* The orthographic projection of v, relative to center
Project(v) == ScreenPt(v[1] * ball_radius, -(v[2] * ball_radius))

Dist2(p, e) == (p.x - e.x) * (p.x - e.x) + (p.y - e.y) * (p.y - e.y)

\* The integer part of the square root of n
ISqrt(n) ==
    CHOOSE s \in 0 .. 2 * ball_radius : s * s <= n /\ n < (s + 1) * (s + 1)

\* distance(pointer, projected center)
PointerDistance(p) == ISqrt(Dist2(p, ScreenPt(0, 0)))

\* The axis with the endpoint nearest the pointer, however far it is
PickAxisAnyDistance(q, p) ==
    LET d(a) == Dist2(p, Project(AxisDir(q, a)))
    IN  CHOOSE a \in Axes :
            \A a2 \in Axes : d(a) < d(a2) \/ (d(a) = d(a2) /\ a <= a2)

\* The axis whose projected endpoint is nearest the pointer and within the
\* pick radius, NoAxis when there is none
PickAxis(q, p) ==
    LET d(a) == Dist2(p, Project(AxisDir(q, a)))
        inRange == {a \in Axes : d(a) <= PickRadius * PickRadius}
    IN  IF inRange = {} THEN NoAxis
        ELSE CHOOSE a \in inRange :
                 \A a2 \in inRange : d(a) < d(a2) \/ (d(a) = d(a2) /\ a <= a2)

\* The pointer un-projected onto the unit sphere, on the hemisphere hemi
\* (1 near, -1 far): a pointer outside the disk is first normalised to the
\* boundary, then z is solved from x^2 + y^2 + z^2 = 1.
Unproject(p, hemi) ==
    LET len == PointerDistance(p)
        out == Dist2(p, ScreenPt(0, 0)) > ball_radius * ball_radius
        px == IF out THEN (p.x * ball_radius) \div len ELSE p.x
        py == IF out THEN (p.y * ball_radius) \div len ELSE p.y
        pz == ISqrt(ball_radius * ball_radius - px * px - py * py)
    IN  <<px \div ball_radius, (-py) \div ball_radius,
          hemi * (pz \div ball_radius)>>

\* Latitude and longitude of a direction in the canonical frame, in
\* millidegrees: lat = asin(y), lon = atan2(x, z), both 0 for the vector
\* of no direction
LatLon(v) ==
    CASE v = <<0, 0, 1>>  -> [lat |-> 0, lon |-> 0]
      [] v = <<1, 0, 0>>  -> [lat |-> 0, lon |-> QuarterTurn]
      [] v = <<-1, 0, 0>> -> [lat |-> 0, lon |-> -QuarterTurn]
      [] v = <<0, 0, -1>> -> [lat |-> 0, lon |-> HalfTurn]
      [] v = <<0, 1, 0>>  -> [lat |-> QuarterTurn, lon |-> 0]
      [] v = <<0, -1, 0>> -> [lat |-> -QuarterTurn, lon |-> 0]
      [] OTHER -> [lat |-> 0, lon |-> 0]

\* The direction of a latitude and longitude:
\* (cos lat sin lon, sin lat, cos lat cos lon)
FromLatLon(ll) ==
    CASE ll.lat = QuarterTurn -> <<0, 1, 0>>
      [] ll.lat = -QuarterTurn -> <<0, -1, 0>>
      [] ll.lat = 0 /\ ll.lon = 0 -> <<0, 0, 1>>
      [] ll.lat = 0 /\ ll.lon = QuarterTurn -> <<1, 0, 0>>
      [] ll.lat = 0 /\ ll.lon = -QuarterTurn -> <<-1, 0, 0>>
      [] ll.lat = 0 /\ ll.lon \in {HalfTurn, -HalfTurn} -> <<0, 0, -1>>

\* Snapping of a candidate direction: its latitude and longitude are each
\* rounded to the increment and converted back
SnapDirection(v) ==
    FromLatLon([lat |-> Snap(LatLon(v).lat), lon |-> Snap(LatLon(v).lon)])

\* The candidate direction of the locked axis for the pointer p
Candidate(q, axis, p, snap) ==
    LET old == AxisDir(q, axis)
        hemi == IF old[3] < 0 THEN -1 ELSE 1
        dir == Unproject(p, hemi)
    IN  IF snap THEN SnapDirection(dir) ELSE dir

\* The three AxisFeedback pairs of the frame q
Feedback(q) == [a \in Axes |-> LatLon(AxisDir(q, a))]

\* The axis a held frame keeps locked, were the nearest axis picked anew
\* in every frame
HeldLockRepicked(q, locked, p) ==
    IF locked # NoAxis /\ PickAxis(q, p) # NoAxis THEN PickAxis(q, p)
    ELSE locked

\* Dragging: the locked axis stays the locked axis while the pointer is held
HeldLock(q, locked, p) == locked

\* A release that leaves the lock in place
ReleaseLockKept(locked) == locked

\* Release: the pointer release clears locked_axis
ReleaseLock(locked) == NoAxis

\* A change reported for every rotation arc computed
ChangedAlways(dq) == TRUE

\* No change is reported when dq is the identity
Changed(dq) == dq # IDENTITY

\* Feedback recomputed only when the orientation changed
FeedbackAfterOnChange(fb, q, chg) == IF chg THEN Feedback(q) ELSE fb

\* Feedback recomputation: after any update, frames with no drag included
FeedbackAfter(fb, q, chg) == Feedback(q)

\* An unlocked held frame taken for a drag of X
EditedAxisOrX(event, locked) ==
    IF event = "held" THEN (IF locked = NoAxis THEN 0 ELSE locked) ELSE NoAxis

\* The axis a call edits: the locked axis in a held frame, none otherwise
EditedAxis(event, locked) == IF event = "held" THEN locked ELSE NoAxis

\* One call of quaternion_ball on the fields (q, fb, locked, dist) under the
\* pointer event of the frame: what it leaves in the fields and returns
QuaternionBall(q, fb, locked, dist, event, p, snap, ortho) ==
    LET pick == PickAxis(q, p)
        lock == CASE event = "press" /\ locked = NoAxis -> pick
                  [] event = "held" -> HeldLock(q, locked, p)
                  [] event = "release" -> ReleaseLock(locked)
                  [] OTHER -> locked
        axis == EditedAxis(event, locked)
        drag == axis # NoAxis
        dq == IF drag
              THEN RotationArc(AxisDir(q, axis),
                               Candidate(q, axis, p, snap), ortho)
              ELSE IDENTITY
        chg == drag /\ Changed(dq)
        q2 == IF chg THEN QMul(dq, q) ELSE q
    IN  [orientation |-> q2,
         feedback |-> FeedbackAfter(fb, q2, chg),
         locked_axis |-> lock,
         initial_distance |->
             IF event = "press" /\ locked = NoAxis /\ pick # NoAxis
             THEN PointerDistance(p) ELSE dist,
         changed |-> chg]

\* The half-turn axes the call may choose from, one dummy when it makes no
\* half turn
CallOrthoChoices(q, locked, event, p, snap) ==
    LET axis == EditedAxis(event, locked)
    IN  IF axis # NoAxis
        THEN OrthoChoices(AxisDir(q, axis), Candidate(q, axis, p, snap))
        ELSE {<<0, 0, 0>>}

\* The pointer positions of a press: the edge of the disk to the right,
\* left, top and bottom, a point between the center and the right edge,
\* nearer the center, and a point in the disk far from all of these
BallPressPoints ==
    {ScreenPt(ball_radius, 0), ScreenPt(-ball_radius, 0),
     ScreenPt(0, -ball_radius), ScreenPt(0, ball_radius),
     ScreenPt(60, 0), ScreenPt(65, 65)}

\* The pointer positions of a held frame: the center, the edge of the disk
\* to the right, left, top and bottom, and a point outside the disk
BallDragPoints ==
    {ScreenPt(0, 0), ScreenPt(ball_radius, 0), ScreenPt(-ball_radius, 0),
     ScreenPt(0, -ball_radius), ScreenPt(0, ball_radius),
     ScreenPt(2 * ball_radius, 0)}

\* The pointer positions of a release: the center and a point outside the
\* disk
BallReleasePoints == {ScreenPt(0, 0), ScreenPt(2 * ball_radius, 0)}

\* The orientation changes a run of both balls is followed through
MaxRotations == 1

\* A value all balls would share
StoreShared(f, b, v) == [x \in DOMAIN f |-> v]

\* Ball b's call is handed the fields of child b and qballb_*
Store(f, b, v) == [f EXCEPT ![b] = v]

\* ChildSettings::default() and WidgetDemoState::default()
QBallInit ==
    /\ orientation = [b \in Balls |-> IDENTITY]
    /\ axis_feedback = [b \in Balls |-> [a \in Axes |-> [lat |-> 0, lon |-> 0]]]
    /\ locked_axis = [b \in Balls |-> NoAxis]
    /\ initial_distance = [b \in Balls |-> 0]
    /\ qball_snapping = TRUE
    /\ pointer_down = [b \in Balls |-> FALSE]
    /\ qb_id = 0
    /\ qb_event = "none"
    /\ qb_ptr = ScreenPt(0, 0)
    /\ qb_old = [orientation |-> IDENTITY, locked_axis |-> NoAxis]
    /\ qb_changed = FALSE
    /\ qb_rotations = 0

\* The call of quaternion_ball on ball b in a frame with the pointer at p
QBallCall(b, event, p, snap) ==
    \E ortho \in CallOrthoChoices(orientation[b], locked_axis[b], event, p, snap) :
        LET r == QuaternionBall(orientation[b], axis_feedback[b],
                                locked_axis[b], initial_distance[b],
                                event, p, snap, ortho)
        IN  /\ orientation' = Store(orientation, b, r.orientation)
            /\ axis_feedback' = Store(axis_feedback, b, r.feedback)
            /\ locked_axis' = Store(locked_axis, b, r.locked_axis)
            /\ initial_distance' = Store(initial_distance, b, r.initial_distance)
            /\ qb_id' = b
            /\ qb_event' = event
            /\ qb_ptr' = p
            /\ qb_old' = [orientation |-> orientation[b],
                          locked_axis |-> locked_axis[b]]
            /\ qb_changed' = r.changed

\* A frame with the pointer button up: ball b's call sees no pointer event
QBallIdle(b) ==
    /\ ~pointer_down[b]
    /\ QBallCall(b, "none", qb_ptr, qball_snapping)
    /\ UNCHANGED <<qball_snapping, pointer_down, qb_rotations>>
    /\ UNCHANGED <<sliderVars, appVars>>

\* The frame of a pointer press at p in ball b's rect
QBallPress(b) ==
    /\ ~pointer_down[b]
    /\ \E p \in BallPressPoints : QBallCall(b, "press", p, qball_snapping)
    /\ pointer_down' = [pointer_down EXCEPT ![b] = TRUE]
    /\ UNCHANGED <<qball_snapping, qb_rotations>>
    /\ UNCHANGED <<sliderVars, appVars>>

\* A frame while the pointer pressed on ball b is held, the pointer anywhere
QBallHeldFrame(b) ==
    /\ pointer_down[b]
    /\ \E p \in BallDragPoints : QBallCall(b, "held", p, qball_snapping)
    /\ UNCHANGED <<qball_snapping, pointer_down>>
    /\ UNCHANGED <<sliderVars, appVars>>

QBallHeld(b) ==
    /\ QBallHeldFrame(b)
    /\ UNCHANGED qb_rotations

\* A press on ball b while the run is followed
QBallPressCounted(b) ==
    /\ qb_rotations < MaxRotations
    /\ QBallPress(b)

\* A held frame of ball b while the run is followed
QBallHeldCounted(b) ==
    /\ qb_rotations < MaxRotations
    /\ QBallHeldFrame(b)
    /\ qb_rotations' = IF qb_changed' THEN qb_rotations + 1 ELSE qb_rotations

\* The first frame in which ball b's call sees the pointer released, the
\* pointer anywhere
QBallRelease(b) ==
    /\ pointer_down[b]
    /\ \E p \in BallReleasePoints : QBallCall(b, "release", p, qball_snapping)
    /\ pointer_down' = [pointer_down EXCEPT ![b] = FALSE]
    /\ UNCHANGED <<qball_snapping, qb_rotations>>
    /\ UNCHANGED <<sliderVars, appVars>>

\* The frame of a click on the "Enable Snapping" checkbox drawn before the
\* balls: both balls are then called with the new flag and no pointer event
ToggleQBallSnapping ==
    /\ \A b \in Balls : ~pointer_down[b]
    /\ qball_snapping' = ~qball_snapping
    /\ LET r(b) == QuaternionBall(orientation[b], axis_feedback[b],
                                  locked_axis[b], initial_distance[b],
                                  "none", qb_ptr, ~qball_snapping, <<0, 0, 0>>)
       IN  /\ orientation' = [b \in Balls |-> r(b).orientation]
           /\ axis_feedback' = [b \in Balls |-> r(b).feedback]
           /\ locked_axis' = [b \in Balls |-> r(b).locked_axis]
           /\ initial_distance' = [b \in Balls |-> r(b).initial_distance]
           /\ qb_changed' = r(2).changed
    /\ qb_id' = 2
    /\ qb_event' = "none"
    /\ qb_old' = [orientation |-> orientation[2], locked_axis |-> locked_axis[2]]
    /\ UNCHANGED <<pointer_down, qb_ptr, qb_rotations>>
    /\ UNCHANGED <<sliderVars, appVars>>

----------------------------------------------------------------------------
(* The sphere drag (drag.rs).  Lengths are in hundredths of a world unit.  *)
(* A ray is given by its direction; the directions all have the length     *)
(* sqrt(109), and a distance along a ray is counted in tenths of a         *)
(* hundredth of that length.                                               *)

Vec3(x, y, z) == <<x, y, z>>

VAdd(a, b) == <<a[1] + b[1], a[2] + b[2], a[3] + b[3]>>
VSub(a, b) == <<a[1] - b[1], a[2] - b[2], a[3] - b[3]>>

\* Transform::from_xyz(0.0, 2.5, 5.0): the camera, and so every ray.origin
ray_origin == Vec3(0, 250, 500)

\* Transform::from_xyz(0.0, 1.0, 0.0): where the sphere is spawned
SphereStart == Vec3(0, 100, 0)

sphere_radius == 50

\* The y below which the sphere is not let
GroundY == 50

\* The one DraggableSphere entity
SphereEntity == 1
NoEntity == 0

\* window.cursor_position() is None
NoCursor == <<0, 0, 0>>

\* The rays through the cursor: to the spawned sphere's center, above it,
\* steeply down, and to the right of it
Rays == {Vec3(0, -3, -10), Vec3(0, 3, -10), Vec3(0, -10, -3), Vec3(6, -3, -8)}

\* The integer part of the square root of n, between lo and hi
RECURSIVE SqrtBetween(_, _, _)
SqrtBetween(n, lo, hi) ==
    IF lo >= hi THEN lo
    ELSE LET mid == (lo + hi + 1) \div 2
         IN  IF mid * mid <= n THEN SqrtBetween(n, mid, hi)
             ELSE SqrtBetween(n, lo, mid - 1)

Sqrt(n) == SqrtBetween(n, 0, 40000)

\* origin + direction * distance
PointAt(direction, distance) ==
    VAdd(ray_origin,
         <<(direction[1] * distance) \div 10, (direction[2] * distance) \div 10,
           (direction[3] * distance) \div 10>>)

None == [some |-> FALSE, t |-> 0]
Some(t) == [some |-> TRUE, t |-> t]

\* ray_sphere_intersection: the nearer root t of the quadratic when the
\* discriminant is not negative and t > 0
ray_sphere_intersection(origin, ray_direction, sphere_center, radius_) ==
    LET oc == VSub(origin, sphere_center)
        a == Dot(ray_direction, ray_direction)
        b == 2 * Dot(oc, ray_direction)
        c == Dot(oc, oc) - radius_ * radius_
        discriminant == b * b - 4 * a * c
    IN  IF discriminant < 0 THEN None
        ELSE LET t == ((-b - Sqrt(discriminant)) * 10) \div (2 * a)
             IN  IF t > 0 THEN Some(t) ELSE None

\* rect.contains(egui_pos) for the recorded viewport rect: the pointer is
\* on the viewport ("viewport"), on a floating panel window or the open
\* Windows menu lying over the viewport ("floating"), or on the menu bar
\* or a docked panel ("panel")
EguiPlaces == {"viewport", "floating", "panel"}
NoEguiPos == "none"

in_viewport(place) == place \in {"viewport", "floating"}

NotDragging ==
    [dragging |-> NoEntity, drag_offset |-> Vec3(0, 0, 0),
     drag_plane_distance |-> 0]

\* The press part of handle_mouse_input (lines 47-80): returned is whether
\* the function returns early, and the drag state
PressPart(ds, cursor, place, pos) ==
    IF cursor = NoCursor \/ place = NoEguiPos
    THEN [returned |-> FALSE, ds |-> ds]
    ELSE IF ~in_viewport(place)
    THEN [returned |-> TRUE, ds |-> ds]
    ELSE LET hit == ray_sphere_intersection(ray_origin, cursor, pos,
                                            sphere_radius)
         IN  [returned |-> FALSE,
              ds |-> IF hit.some
                     THEN [dragging |-> SphereEntity,
                           drag_offset |-> VSub(pos, PointAt(cursor, hit.t)),
                           drag_plane_distance |-> hit.t]
                     ELSE ds]

\* handle_mouse_input
handle_mouse_input(ds, pressed, released, cursor, place, pos) ==
    LET p == IF pressed THEN PressPart(ds, cursor, place, pos)
             ELSE [returned |-> FALSE, ds |-> ds]
    IN  IF p.returned THEN p.ds
        ELSE IF released THEN [p.ds EXCEPT !.dragging = NoEntity]
        ELSE p.ds

\* The translation with no clamp of y
ClampYMissing(v) == v

\* translation.y = translation.y.max(0.5)
ClampY(v) == <<v[1], IF v[2] < GroundY THEN GroundY ELSE v[2], v[3]>>

\* update_drag_position: the translation it leaves and whether it wrote it
update_drag_position(ds, cursor, pos) ==
    IF ds.dragging # NoEntity /\ cursor # NoCursor
    THEN [translation |->
              ClampY(VAdd(PointAt(cursor, ds.drag_plane_distance),
                          ds.drag_offset)),
          wrote |-> TRUE]
    ELSE [translation |-> pos, wrote |-> FALSE]

\* The presses a run is followed through
MaxPresses == 2

\* DragState::default() and the spawned sphere
DragInit ==
    /\ drag_state = NotDragging
    /\ translation = SphereStart
    /\ left_pressed = FALSE
    /\ just_pressed = FALSE
    /\ just_released = FALSE
    /\ cursor_position = NoCursor
    /\ egui_place = NoEguiPos
    /\ old_drag_state = NotDragging
    /\ old_translation = SphereStart
    /\ wrote_transform = FALSE
    /\ presses = 0

\* One frame of (handle_mouse_input, update_drag_position).chain() with the
\* button events pressed and released and the pointer at cursor and place
DragSystems(pressed, released, cursor, place) ==
    LET ds == handle_mouse_input(drag_state, pressed, released, cursor,
                                 place, translation)
        u == update_drag_position(ds, cursor, translation)
    IN  /\ drag_state' = ds
        /\ translation' = u.translation
        /\ just_pressed' = pressed
        /\ just_released' = released
        /\ cursor_position' = cursor
        /\ egui_place' = place
        /\ old_drag_state' = drag_state
        /\ old_translation' = translation
        /\ wrote_transform' = u.wrote
        /\ presses' = IF pressed THEN presses + 1 ELSE presses
        /\ UNCHANGED <<sliderVars, qbVars, dockVars, modeVars>>

\* The pointer of a frame: the cursor in the window or not, egui's pointer
\* known or not
Pointers == (Rays \cup {NoCursor}) \X (EguiPlaces \cup {NoEguiPos})

\* A frame with no button event
MouseMoveFrame ==
    /\ \E pt \in Pointers : DragSystems(FALSE, FALSE, pt[1], pt[2])
    /\ UNCHANGED left_pressed

\* A frame in which the button went down
MousePressFrame ==
    /\ ~left_pressed /\ presses < MaxPresses
    /\ \E pt \in Pointers : DragSystems(TRUE, FALSE, pt[1], pt[2])
    /\ left_pressed' = TRUE

\* A frame in which the button went up
MouseReleaseFrame ==
    /\ left_pressed
    /\ \E pt \in Pointers : DragSystems(FALSE, TRUE, pt[1], pt[2])
    /\ left_pressed' = FALSE

\* A frame in which the button went down and up again
MouseClickFrame ==
    /\ ~left_pressed /\ presses < MaxPresses
    /\ \E pt \in Pointers : DragSystems(TRUE, TRUE, pt[1], pt[2])
    /\ left_pressed' = FALSE

\* A frame in which the button went up and down again
MouseReclickFrame ==
    /\ left_pressed /\ presses < MaxPresses
    /\ \E pt \in Pointers : DragSystems(TRUE, TRUE, pt[1], pt[2])
    /\ left_pressed' = TRUE

----------------------------------------------------------------------------
(* The dock (dock.rs).  The DockState is kept as the sequence of its       *)
(* leaves in tree order, the leaves of the main surface and the floating   *)
(* windows, each leaf with the sequence of its tabs.                       *)

\* Panel::is_placeholder
is_placeholder(tab) == tab \in {"LeftPanel", "RightPanel", "BottomPanel"}

\* TabViewer::is_viewport
is_viewport(tab) == tab = "Viewport"

\* TabViewer::is_closeable
is_closeable(tab) == ~is_placeholder(tab) /\ ~is_viewport(tab)

\* TabViewer::allowed_in_windows
allowed_in_windows(tab) == ~is_placeholder(tab) /\ ~is_viewport(tab)

\* The list of show_windows_menu
dynamic_windows ==
    <<"Inspector", "Console", "Hierarchy", "Assets", "CircleSliders",
      "QuaternionBall", "Modes", "NameTypeEditor", "AdhesionSettings",
      "ParentSettings", "TimeSlider">>

DynamicPanels == {dynamic_windows[i] : i \in DOMAIN dynamic_windows}

PermanentPanels == {"LeftPanel", "RightPanel", "BottomPanel", "Viewport"}

\* The entries of the list the user clicks: the first MaxClicked, and
\* Modes, which the default layout shows
MaxClicked == 1

ClickedPanels == {dynamic_windows[i] : i \in 1 .. MaxClicked} \cup {"Modes"}

Leaf(window, tabs) == [window |-> window, tabs |-> tabs]

\* create_default_layout: Modes | Left | (Viewport | Right) / Bottom
create_default_layout ==
    <<Leaf(FALSE, <<"Modes">>), Leaf(FALSE, <<"LeftPanel">>),
      Leaf(FALSE, <<"Viewport">>), Leaf(FALSE, <<"RightPanel">>),
      Leaf(FALSE, <<"BottomPanel">>)>>

\* The tabs of a leaf that are the panel
TabsOf(leaf, panel) == {j \in DOMAIN leaf.tabs : leaf.tabs[j] = panel}

\* The number of tabs of the tree that are the panel
RECURSIVE CountFrom(_, _, _)
CountFrom(tree, panel, i) ==
    IF i > Len(tree) THEN 0
    ELSE Cardinality(TabsOf(tree[i], panel)) + CountFrom(tree, panel, i + 1)

TabCount(tree, panel) == CountFrom(tree, panel, 1)

\* The panel looked for in the focused leaf alone
is_panel_open_in_focus(tree, focus, panel) ==
    focus # 0 /\ TabsOf(tree[focus], panel) # {}

\* is_panel_open: iter_all_tabs().any(|(_, tab)| tab == panel); the focus
\* plays no part
is_panel_open(tree, focus, panel) ==
    \E i \in DOMAIN tree : TabsOf(tree[i], panel) # {}

\* The sequence without its element i
RemoveAt(seq, i) == SubSeq(seq, 1, i - 1) \o SubSeq(seq, i + 1, Len(seq))

\* find_tab: the first leaf with the panel, 0 when there is none
find_tab(tree, panel) ==
    IF \E i \in DOMAIN tree : TabsOf(tree[i], panel) # {}
    THEN CHOOSE i \in DOMAIN tree :
             /\ TabsOf(tree[i], panel) # {}
             /\ \A k \in 1 .. i - 1 : TabsOf(tree[k], panel) = {}
    ELSE 0

\* The focused leaf after leaf i is removed
FocusAfterRemoval(focus, i) ==
    IF focus = i THEN 0 ELSE IF focus > i THEN focus - 1 ELSE focus

\* The panel closed with the whole leaf it is in
close_panel_with_leaf(tree, focus, panel) ==
    LET i == find_tab(tree, panel)
    IN  IF i = 0 THEN [tree |-> tree, focus |-> focus]
        ELSE [tree |-> RemoveAt(tree, i), focus |-> FocusAfterRemoval(focus, i)]

\* close_panel: remove_tab on the place find_tab gives; a leaf left with
\* no tab is removed from the tree
close_panel(tree, focus, panel) ==
    LET i == find_tab(tree, panel)
    IN  IF i = 0 THEN [tree |-> tree, focus |-> focus]
        ELSE LET j == CHOOSE j \in TabsOf(tree[i], panel) :
                          \A k \in TabsOf(tree[i], panel) : j <= k
                 tabs == RemoveAt(tree[i].tabs, j)
             IN  IF tabs = <<>>
                 THEN [tree |-> RemoveAt(tree, i),
                       focus |-> FocusAfterRemoval(focus, i)]
                 ELSE [tree |-> [tree EXCEPT ![i].tabs = tabs],
                       focus |-> focus]

\* The leaves of the main surface
MainLeaves(tree) == {i \in DOMAIN tree : ~tree[i].window}

\* open_panel: push_to_focused_leaf on the main surface: the focused leaf,
\* the first leaf when none is focused, a new leaf in an empty surface
open_panel(tree, focus, panel) ==
    IF MainLeaves(tree) = {}
    THEN [tree |-> <<Leaf(FALSE, <<panel>>)>> \o tree, focus |-> 1]
    ELSE LET i == IF focus # 0 THEN focus
                  ELSE CHOOSE i \in MainLeaves(tree) :
                           \A k \in MainLeaves(tree) : i <= k
         IN  [tree |-> [tree EXCEPT ![i].tabs = Append(@, panel)],
              focus |-> i]

\* The body of the loop of show_windows_menu for the clicked entry
toggle_panel(tree, focus, panel) ==
    IF is_panel_open(tree, focus, panel)
    THEN close_panel(tree, focus, panel)
    ELSE open_panel(tree, focus, panel)

NoClick == "none"
HideAll == "Hide All"

\* setup_dock with no saved dock state; the layout leaves the leaf of its
\* last split focused
DockInit ==
    /\ dock_tree = create_default_layout
    /\ focused_leaf = find_tab(create_default_layout, "RightPanel")
    /\ all_hidden = FALSE
    /\ menu_click = NoClick

\* A frame in which the entry of a panel in the Windows menu is clicked
MenuTogglePanel ==
    \E panel \in ClickedPanels :
        LET r == toggle_panel(dock_tree, focused_leaf, panel)
        IN  /\ dock_tree' = r.tree
            /\ focused_leaf' = r.focus
            /\ menu_click' = panel
            /\ UNCHANGED all_hidden
            /\ UNCHANGED <<sliderVars, qbVars, dragVars, modeVars>>

\* A frame in which Hide All / Show All is clicked
MenuHideAll ==
    /\ all_hidden' = ~all_hidden
    /\ menu_click' = HideAll
    /\ UNCHANGED <<dock_tree, focused_leaf>>
    /\ UNCHANGED <<sliderVars, qbVars, dragVars, modeVars>>

\* A frame in which the user clicks into a leaf of the shown main surface
FocusLeaf ==
    /\ ~all_hidden
    /\ \E i \in MainLeaves(dock_tree) :
           /\ i # focused_leaf
           /\ focused_leaf' = i
    /\ menu_click' = NoClick
    /\ UNCHANGED <<dock_tree, all_hidden>>
    /\ UNCHANGED <<sliderVars, qbVars, dragVars, modeVars>>

\* A frame in which the user closes a tab of the shown dock by its button,
\* which egui_dock offers on closeable tabs
CloseTab ==
    /\ ~all_hidden
    /\ \E panel \in DynamicPanels \cup PermanentPanels :
           /\ is_closeable(panel)
           /\ is_panel_open(dock_tree, focused_leaf, panel)
           /\ LET r == close_panel(dock_tree, focused_leaf, panel)
              IN  /\ dock_tree' = r.tree
                  /\ focused_leaf' = r.focus
    /\ menu_click' = NoClick
    /\ UNCHANGED all_hidden
    /\ UNCHANGED <<sliderVars, qbVars, dragVars, modeVars>>

\* A frame in which the user drags a tab of the main surface out into a
\* floating window, which egui_dock allows for tabs allowed in windows
EjectTab ==
    /\ ~all_hidden
    /\ \E panel \in DynamicPanels \cup PermanentPanels :
           /\ allowed_in_windows(panel)
           /\ find_tab(dock_tree, panel) \in MainLeaves(dock_tree)
           /\ LET r == close_panel(dock_tree, focused_leaf, panel)
              IN  /\ dock_tree' = Append(r.tree, Leaf(TRUE, <<panel>>))
                  /\ focused_leaf' = r.focus
    /\ menu_click' = NoClick
    /\ UNCHANGED all_hidden
    /\ UNCHANGED <<sliderVars, qbVars, dragVars, modeVars>>

----------------------------------------------------------------------------
(* The genome (genome/mod.rs) and the modes panel (ui.rs).  A mode keeps   *)
(* its name, default name and colour, and of its other settings the two    *)
(* children with their mode number and Keep Adhesion.                      *)

\* The modes GenomeData::default creates, 120 in the source
NumModes == 3

ModeIndices == 0 .. NumModes - 1

\* Names and colours, as what they were made from
Text(kind, n) == [kind |-> kind, n |-> n]

Untitled == Text("Untitled Mode", 0)

\* format!("M {}", i)
ModeName(i) == Text("M", i)

\* What the user types into the Rename Mode window, and what is left of
\* it after trim()
TypedNames == {Text("", 0), Text("typed", 0)}

White == Text("white", 0)

\* hue_to_rgb for the hue of mode i: never white, its channels differ
HueColor(i) == Text("hue", i)

PickedColor == Text("picked", 0)

\* ChildSettings::default
ChildSettingsDefault == [mode_number |-> 0, keep_adhesion |-> TRUE]

\* ModeSettings::default
ModeSettingsDefault ==
    [name |-> Untitled, default_name |-> Untitled, color |-> White,
     child_a |-> ChildSettingsDefault, child_b |-> ChildSettingsDefault]

\* ModeSettings::new_self_splitting
new_self_splitting(mode_index, name) ==
    [name |-> name, default_name |-> name, color |-> White,
     child_a |-> [ChildSettingsDefault EXCEPT !.mode_number = mode_index],
     child_b |-> [ChildSettingsDefault EXCEPT !.mode_number = mode_index]]

\* GenomeData::default
GenomeDataDefault ==
    [i \in ModeIndices |->
        [new_self_splitting(i, ModeName(i)) EXCEPT !.color = HueColor(i)]]

\* modes.len()
ModesLen(ms) == Cardinality(DOMAIN ms)

\* The copy that takes the name of the source too
copy_into_with_name(ms, source_idx, target_idx) ==
    IF source_idx # target_idx /\ source_idx < ModesLen(ms)
           /\ target_idx < ModesLen(ms)
    THEN [ms EXCEPT ![target_idx] = ms[source_idx]]
    ELSE ms

\* render_modes_panel, the target selection of copy into mode
copy_into(ms, source_idx, target_idx) ==
    IF source_idx # target_idx /\ source_idx < ModesLen(ms)
           /\ target_idx < ModesLen(ms)
    THEN [ms EXCEPT ![target_idx] =
              [ms[source_idx] EXCEPT !.name = ms[target_idx].name]]
    ELSE ms

\* The reset that leaves the children at the mode of the default
reset_mode_children_default(ms, selected_idx) ==
    IF selected_idx < ModesLen(ms)
    THEN [ms EXCEPT ![selected_idx] =
              [ModeSettingsDefault EXCEPT
                  !.name = ms[selected_idx].name,
                  !.color = ms[selected_idx].color]]
    ELSE ms

\* render_modes_panel, reset mode
reset_mode(ms, selected_idx) ==
    IF selected_idx < ModesLen(ms)
    THEN [ms EXCEPT ![selected_idx] =
              [ModeSettingsDefault EXCEPT
                  !.name = ms[selected_idx].name,
                  !.color = ms[selected_idx].color,
                  !.child_a.mode_number = selected_idx,
                  !.child_b.mode_number = selected_idx]]
    ELSE ms

\* The entries of a dropdown that has one entry too many
ChildModeChoicesOneMore(ms) == 0 .. ModesLen(ms)

\* The entries of a child-mode dropdown: mode_display_data.iter().enumerate()
ChildModeChoices(ms) == 0 .. ModesLen(ms) - 1

\* The frames of the panels a behaviour takes
MaxModeFrames == 4

\* CurrentGenome::default and WidgetDemoState::default
ModesInit ==
    /\ modes = GenomeDataDefault
    /\ selected_mode_index = 0
    /\ copy_into_dialog_open = FALSE
    /\ copy_into_source = 0
    /\ mode_event = "none"
    /\ mode_frames = 0

\* What every frame of the panels does besides its event
PanelFrame(event) ==
    /\ mode_frames < MaxModeFrames
    /\ mode_frames' = mode_frames + 1
    /\ mode_event' = event
    /\ UNCHANGED <<sliderVars, qbVars, dragVars, dockVars>>

\* A frame of render_modes_panel in which a mode of the list is selected
SelectModeFrame ==
    /\ PanelFrame("select")
    /\ \E target_idx \in DOMAIN modes :
           /\ selected_mode_index' = target_idx
           /\ IF copy_into_dialog_open
              THEN /\ modes' = copy_into(modes, copy_into_source, target_idx)
                   /\ copy_into_dialog_open' = FALSE
              ELSE UNCHANGED <<modes, copy_into_dialog_open>>
    /\ UNCHANGED copy_into_source

\* A frame of render_modes_panel in which Copy Into is clicked
CopyIntoFrame ==
    /\ PanelFrame("copy_into")
    /\ IF selected_mode_index < ModesLen(modes)
       THEN /\ copy_into_dialog_open' = TRUE
            /\ copy_into_source' = selected_mode_index
       ELSE UNCHANGED <<copy_into_dialog_open, copy_into_source>>
    /\ UNCHANGED <<modes, selected_mode_index>>

\* A frame of render_modes_panel in which Reset is clicked
ResetFrame ==
    /\ PanelFrame("reset")
    /\ modes' = reset_mode(modes, selected_mode_index)
    /\ UNCHANGED <<selected_mode_index, copy_into_dialog_open, copy_into_source>>

\* A frame of render_modes_panel in which the Rename Mode window of a mode
\* is confirmed
RenameFrame ==
    /\ PanelFrame("rename")
    /\ \E rename_idx \in DOMAIN modes, trimmed \in TypedNames :
           modes' = IF trimmed.kind # "" /\ rename_idx < ModesLen(modes)
                    THEN [modes EXCEPT ![rename_idx].name = trimmed]
                    ELSE modes
    /\ UNCHANGED <<selected_mode_index, copy_into_dialog_open, copy_into_source>>

\* A frame of render_modes_panel in which the colour picker of a mode of
\* the list gives a colour
ColorChangeFrame ==
    /\ PanelFrame("color")
    /\ \E idx \in DOMAIN modes :
           modes' = IF idx < ModesLen(modes)
                    THEN [modes EXCEPT ![idx].color = PickedColor]
                    ELSE modes
    /\ UNCHANGED <<selected_mode_index, copy_into_dialog_open, copy_into_source>>

\* A frame of the QuaternionBall panel in which an entry of the dropdown
\* of child A is chosen
ChildAModeFrame ==
    /\ PanelFrame("child_a")
    /\ selected_mode_index < ModesLen(modes)
    /\ \E current_mode \in ChildModeChoices(modes) :
           modes' = [modes EXCEPT
                        ![selected_mode_index].child_a.mode_number = current_mode]
    /\ UNCHANGED <<selected_mode_index, copy_into_dialog_open, copy_into_source>>

\* A frame of the QuaternionBall panel in which an entry of the dropdown
\* of child B is chosen
ChildBModeFrame ==
    /\ PanelFrame("child_b")
    /\ selected_mode_index < ModesLen(modes)
    /\ \E current_mode \in ChildModeChoices(modes) :
           modes' = [modes EXCEPT
                        ![selected_mode_index].child_b.mode_number = current_mode]
    /\ UNCHANGED <<selected_mode_index, copy_into_dialog_open, copy_into_source>>

\* A frame of the QuaternionBall panel in which Keep Adhesion of child A
\* is clicked
KeepAdhesionFrame ==
    /\ PanelFrame("keep_adhesion")
    /\ selected_mode_index < ModesLen(modes)
    /\ modes' = [modes EXCEPT
                    ![selected_mode_index].child_a.keep_adhesion = ~@]
    /\ UNCHANGED <<selected_mode_index, copy_into_dialog_open, copy_into_source>>

\* The lookups of the child-mode display: mode_display_data[child_a_mode_idx]
\* and mode_display_data[child_b_mode_idx] are in bounds for the mode
ChildLookupsInBounds(ms, i) ==
    /\ ms[i].child_a.mode_number \in 0 .. ModesLen(ms) - 1
    /\ ms[i].child_b.mode_number \in 0 .. ModesLen(ms) - 1

----------------------------------------------------------------------------
(* Specifications                                                          *)

\* The state when the window opens
Init == SliderInit /\ QBallInit /\ DragInit /\ DockInit /\ ModesInit

\* The frames of the slider
Next ==
    \/ IdleFrame
    \/ PressFrame
    \/ DragFrame
    \/ ReleaseFrame
    \/ TypeFrame
    \/ TypeCommitFrame
    \/ BlurFrame
    \/ ToggleSnapping

Spec == Init /\ [][Next]_vars

\* The frames of the Child A ball alone
BallNext ==
    \/ QBallIdle(1)
    \/ QBallPress(1)
    \/ QBallHeld(1)
    \/ QBallRelease(1)
    \/ ToggleQBallSnapping

\* The balls' panel is shown while the slider stays at its initial 0.0
BallInit == Init /\ value = Fin(0)

BallSpec == BallInit /\ [][BallNext]_vars

\* The calls on both balls, in any order
TwoBallNext ==
    \/ QBallIdle(1)
    \/ QBallIdle(2)
    \/ QBallPressCounted(1)
    \/ QBallPressCounted(2)
    \/ QBallHeldCounted(1)
    \/ QBallHeldCounted(2)
    \/ QBallRelease(1)
    \/ QBallRelease(2)
    \/ ToggleQBallSnapping

TwoBallSpec == BallInit /\ [][TwoBallNext]_vars

\* The frames of the sphere drag
DragNext ==
    \/ MouseMoveFrame
    \/ MousePressFrame
    \/ MouseReleaseFrame
    \/ MouseClickFrame
    \/ MouseReclickFrame

DragSpec == BallInit /\ [][DragNext]_vars

\* The frames of the dock
DockNext ==
    \/ MenuTogglePanel
    \/ MenuHideAll
    \/ FocusLeaf
    \/ CloseTab
    \/ EjectTab

DockSpec == BallInit /\ [][DockNext]_vars

\* The frames of the modes panel and of the child-mode dropdowns
ModesNext ==
    \/ SelectModeFrame
    \/ CopyIntoFrame
    \/ ResetFrame
    \/ RenameFrame
    \/ ColorChangeFrame
    \/ ChildAModeFrame
    \/ ChildBModeFrame
    \/ KeepAdhesionFrame

ModesSpec == BallInit /\ [][ModesNext]_vars

----------------------------------------------------------------------------
(* Properties                                                              *)

MaxProbe == 144
ProbeStep == 1875

\* The angles on which snapping is probed: -270 to 270 degrees
SnapProbe == {i * ProbeStep : i \in -MaxProbe .. MaxProbe}

\* v_min <= v <= v_max as f32 comparisons
InRange(v) == FLe(Fin(v_min), v) /\ FLe(v, Fin(v_max))

\* C1: every value a call writes into *value, by the drag branch or by the
\* text branch (the text having parsed), lies in [v_min, v_max].
C1_WrittenValueInRange == (drag_wrote \/ text_wrote) => InRange(value)

\* C2: after any call, v_min <= value <= v_max.
C2_ValueInRangeAfterCall == InRange(value)

\* C3: the response is marked changed in a frame if and only if *value
\* after the call differs from *value before the call.
C3_ChangedIffValueDiffers == changed <=> (value # old_value)

\* C4: in a drag frame the candidate is the pointer angle (atan2 + 90
\* degrees), wrapped by -360 when above 180, then with snapping rounded to
\* the nearest multiple of 11.25, then clamped to [v_min, v_max]; a raw 45.0
\* without snapping gives 45.0 and a raw 50.0 with snapping gives 45.0.
C4_DragCandidateOrder ==
    is_dragged =>
        LET raw == MouseDegrees(mouse_pos)
            wrapped == IF raw > 180000 THEN raw - 360000 ELSE raw
            clamped == IF wrapped < v_min THEN v_min
                       ELSE IF wrapped > v_max THEN v_max ELSE wrapped
        IN  /\ new_value.k = "fin"
            /\ v_min <= new_value.m /\ new_value.m <= v_max
            /\ ~enable_snapping => new_value.m = clamped
            /\ enable_snapping =>
                /\ new_value.m % 11250 = 0
                /\ 2 * Abs(new_value.m - wrapped) <= 11250
            /\ (raw = 45000 /\ ~enable_snapping) => new_value.m = 45000
            /\ (raw = 50000 /\ enable_snapping) => new_value.m = 45000

\* A snapped drag frame with the raw angle 50.0 has committed 45.0.
C4_Witness ==
    /\ is_dragged /\ enable_snapping
    /\ MouseDegrees(mouse_pos) = 50000
    /\ new_value = Fin(45000) /\ value = Fin(45000) /\ changed

\* C5: when the text field was edited to an unparseable text and loses
\* focus, *value is unchanged and changed is false.
C5_UnparseableEditDiscarded ==
    (lost_focus /\ pending = Garbage) => (value = old_value /\ ~changed)

\* C6: when the text field was edited to a number n in an earlier frame and
\* loses focus in a later one, clamp(n, v_min, v_max) is committed and
\* changed is marked.
C6_EditCommittedOnBlur ==
    (lost_focus /\ ~edited /\ pending.kind = "num") =>
        (value = Clamp(Fin(pending.num), v_min, v_max) /\ changed)

\* C7: snapping is idempotent: snapping a snapped angle returns it, for every
\* probed angle and for every candidate a snapped drag frame computes.
C7_SnapIdempotent ==
    /\ \A x \in SnapProbe : Snap(Snap(x)) = Snap(x)
    /\ (is_dragged /\ enable_snapping) => Snap(new_value.m) = new_value.m

\* A snapped drag frame at 5.625 degrees, half way between two multiples,
\* has computed 11.25.
C7_Witness ==
    /\ is_dragged /\ enable_snapping
    /\ MouseDegrees(mouse_pos) = 5625
    /\ new_value = Fin(11250)

\* C8: a drag changes the value only when it began with a press inside the
\* grab zone.
C8_DragOnlyFromGrabZone == drag_wrote => press_in_grab_zone

\* C9: a drag frame with the pointer exactly at the center leaves the value
\* as it was and does not mark changed.
C9_CenterDragIsNoOp ==
    (is_dragged /\ mouse_pos.dist = 0) => (value = old_value /\ ~changed)

\* C10: no call panics, and a text that does not parse is ignored: the text
\* branch writes nothing and marks nothing.
C10_NeverPanics ==
    /\ ~panicked
    /\ (lost_focus /\ Parse(text_value).ok = FALSE) =>
            (~text_wrote /\ ~changed /\ value = old_value)

\* The field lost focus in the frame in which it was edited to "abc", after
\* drags and commits that ran the clamp.
C10_Witness ==
    /\ lost_focus /\ text_value = Garbage /\ edited
    /\ ~panicked /\ ~changed /\ value = old_value
    /\ value \notin InitValues

\* C19: in a drag frame the candidate is committed and changed is marked only
\* when it differs from the current value by more than 0.001 (and then it
\* is); otherwise the drag branch leaves the value and the flag untouched.
C19_DragCommitThreshold ==
    is_dragged =>
        LET far == old_value.k = "fin" /\ Abs(new_value.m - old_value.m) > 1
        IN  /\ drag_wrote <=> far
            /\ drag_wrote => (value = new_value /\ changed)
            /\ ~drag_wrote => (value = old_value /\ ~changed)

\* A drag frame whose candidate 45.001 is exactly 0.001 from the value 45.0
\* has left the value alone.
C19_Witness ==
    /\ is_dragged /\ new_value = Fin(45001)
    /\ old_value = Fin(45000) /\ value = Fin(45000) /\ ~changed

\* C20: for every pointer position the drag angle after the wrap step lies
\* in the half-open interval (-180, 180] degrees.
C20_WrappedAngleRange ==
    is_dragged =>
        LET wrapped == Wrap(MouseDegrees(mouse_pos))
        IN  -180000 < wrapped /\ wrapped <= 180000

\* A drag frame with the pointer due left of the center (atan2 = 180, raw
\* angle 270) has wrapped to -90.
C20_Witness ==
    /\ is_dragged /\ MouseDegrees(mouse_pos) = 270000
    /\ new_value = Fin(-90000)

----------------------------------------------------------------------------
(* Properties of the Orientation Ball                                      *)

C12_PressLocksNearestInRange ==
    \A b \in Balls :
        (qb_id = b /\ qb_event = "press" /\ qb_old.locked_axis = NoAxis) =>
            LET d(a) == Dist2(qb_ptr, Project(AxisDir(qb_old.orientation, a)))
                near == {a \in Axes : d(a) <= PickRadius * PickRadius}
            IN  /\ orientation[b] = qb_old.orientation
                /\ near = {} => locked_axis[b] = NoAxis
                /\ near # {} =>
                       /\ locked_axis[b] \in near
                       /\ \A a \in near : d(locked_axis[b]) <= d(a)
                       /\ initial_distance[b] = PointerDistance(qb_ptr)

\* A press with the endpoints of Z and of X both within the pick radius,
\* that of Z the nearer, locked Z
C12_Witness ==
    /\ qb_id = 1 /\ qb_event = "press"
    /\ qb_old = [orientation |-> IDENTITY, locked_axis |-> NoAxis]
    /\ qb_ptr = ScreenPt(60, 0)
    /\ locked_axis[1] = 2
    /\ initial_distance[1] = 60

\* C13: a locked axis stays the locked axis through every call but that of
\* the release frame, wherever the pointer goes; locked_axis names at most
\* one axis.
C13_LockHeldUntilRelease ==
    [][\A b \in Balls :
          /\ locked_axis'[b] \in Axes \cup {NoAxis}
          /\ (locked_axis[b] # NoAxis /\ ~(qb_id' = b /\ qb_event' = "release"))
                 => locked_axis'[b] = locked_axis[b]]_vars

\* A held frame with the pointer on the endpoint of another axis than the
\* locked one
C13_Witness ==
    /\ qb_id = 1 /\ qb_event = "held"
    /\ qb_old.locked_axis = 0
    /\ locked_axis[1] = 0
    /\ PickAxis(qb_old.orientation, qb_ptr) = 1

\* C14: the call of the frame in which the pointer is released leaves
\* locked_axis at NoAxis, wherever the pointer is; no axis is locked while
\* the pointer is up.
C14_ReleaseClearsLock ==
    \A b \in Balls :
        /\ (qb_id = b /\ qb_event = "release") => locked_axis[b] = NoAxis
        /\ ~pointer_down[b] => locked_axis[b] = NoAxis

\* A drag released with the pointer outside the disk
C14_Witness ==
    /\ qb_id = 1 /\ qb_event = "release"
    /\ qb_old.locked_axis # NoAxis
    /\ qb_ptr = ScreenPt(2 * ball_radius, 0)
    /\ locked_axis[1] = NoAxis

\* C15: a call on one ball leaves the other ball's locked_axis, initial
\* distance and orientation as they were, in any interleaving of the calls
\* on the two balls.
C15_InstancesIndependent ==
    [][\A b \in Balls : \A c \in Balls \ {b} :
          qb_id' = b =>
              /\ locked_axis'[c] = locked_axis[c]
              /\ initial_distance'[c] = initial_distance[c]
              /\ orientation'[c] = orientation[c]]_vars

\* Both balls are in a drag, on different axes, and ball 1 has just turned
C15_Witness ==
    /\ qb_id = 1 /\ qb_event = "held" /\ qb_changed
    /\ locked_axis[1] = 0 /\ locked_axis[2] = 1
    /\ initial_distance[2] = ball_radius
    /\ orientation[2] = IDENTITY

C17_ScenarioD ==
    \A b \in Balls :
        ( /\ qb_id = b /\ qb_event = "held"
          /\ qb_old = [orientation |-> IDENTITY, locked_axis |-> 0]
          /\ qb_ptr = Project(<<0, 1, 0>>) ) =>
            /\ qb_changed
            /\ orientation[b] = Quat(1, 0, 0, 1, 2)
            /\ RotateVec(orientation[b], <<1, 0, 0>>) = <<0, 1, 0>>
            /\ RotateVec(orientation[b], <<0, 1, 0>>) = <<-1, 0, 0>>
            /\ RotateVec(orientation[b], <<0, 0, 1>>) = <<0, 0, 1>>

C17_Witness ==
    /\ qb_id = 1 /\ qb_event = "held"
    /\ qb_old = [orientation |-> IDENTITY, locked_axis |-> 0]
    /\ qb_ptr = ScreenPt(0, -ball_radius)
    /\ RotateVec(orientation[1], <<1, 0, 0>>) = <<0, 1, 0>>

\* C18: a held frame whose candidate direction is the locked axis's current
\* direction leaves the orientation as it was and reports no change.
C18_CoincidentCandidateNoChange ==
    \A b \in Balls :
        ( /\ qb_id = b /\ qb_event = "held"
          /\ qb_old.locked_axis # NoAxis
          /\ Candidate(qb_old.orientation, qb_old.locked_axis, qb_ptr,
                       qball_snapping)
                 = AxisDir(qb_old.orientation, qb_old.locked_axis) ) =>
            /\ orientation[b] = qb_old.orientation
            /\ ~qb_changed

\* A held frame with the pointer beyond the endpoint of the locked axis,
\* outside the disk
C18_Witness ==
    /\ qb_id = 1 /\ qb_event = "held"
    /\ qb_old = [orientation |-> IDENTITY, locked_axis |-> 0]
    /\ qb_ptr = ScreenPt(2 * ball_radius, 0)
    /\ orientation[1] = IDENTITY
    /\ ~qb_changed

----------------------------------------------------------------------------
(* Further properties of the slider and of the ball                        *)

\* C21: with snapping enabled (v_min and v_max are multiples of 11.25),
\* every value a slider drag commits is a multiple of 11.25.
C21_SnappedDragCommitsMultiple ==
    (is_dragged /\ drag_wrote /\ enable_snapping) =>
        /\ value.k = "fin"
        /\ value.m % SnapIncrement = 0
        /\ v_min % SnapIncrement = 0 /\ v_max % SnapIncrement = 0

\* A drag at a raw 50 degrees has committed 45
C21_Witness ==
    /\ is_dragged /\ drag_wrote /\ enable_snapping
    /\ MouseDegrees(mouse_pos) = 50000
    /\ value = Fin(45000)

\* C22: a call on a ball with no axis locked leaves the orientation as it
\* was and reports no change, whether its press locks an axis or not; the
\* orientation changes only in held frames with an axis locked.
C22_OrientationOnlyChangesWhenLocked ==
    \A b \in Balls :
        qb_id = b =>
            /\ qb_old.locked_axis = NoAxis =>
                   (orientation[b] = qb_old.orientation /\ ~qb_changed)
            /\ (orientation[b] # qb_old.orientation \/ qb_changed) =>
                   (qb_event = "held" /\ qb_old.locked_axis # NoAxis)

\* A held frame after a press that locked no axis, the pointer on the
\* projection of canonical Y, on a ball turned before
C22_Witness ==
    /\ qb_id = 1 /\ qb_event = "held"
    /\ qb_old.locked_axis = NoAxis
    /\ qb_ptr = ScreenPt(0, -ball_radius)
    /\ orientation[1] # IDENTITY
    /\ orientation[1] = qb_old.orientation
    /\ ~qb_changed

----------------------------------------------------------------------------
(* Properties of the sphere drag                                           *)

\* C23: after every frame in which the left button was just released,
\* DragState.dragging is None, wherever the cursor is and whether or not
\* the button was also just pressed in that frame.
C23_ReleaseEndsDrag ==
    just_released => drag_state.dragging = NoEntity

\* C24: a frame takes DragState.dragging from None to the sphere only when
\* the left button was just pressed, the egui pointer lies in the recorded
\* viewport rect, the ray through the cursor intersects the sphere, and the
\* pointer is on the viewport itself, not on another panel.
C24_DragStartsOnlyOnViewportHit ==
    (old_drag_state.dragging = NoEntity /\ drag_state.dragging # NoEntity) =>
        /\ just_pressed
        /\ cursor_position # NoCursor
        /\ in_viewport(egui_place)
        /\ ray_sphere_intersection(ray_origin, cursor_position,
                                   old_translation, sphere_radius).some
        /\ drag_state.dragging = SphereEntity
        /\ egui_place = "viewport"

\* C25: a translation written by update_drag_position has y >= 0.5, and a
\* frame in which DragState.dragging is None when update_drag_position runs
\* leaves the translation as it was.
C25_DraggedSphereAboveGround ==
    /\ wrote_transform => translation[2] >= GroundY
    /\ drag_state.dragging = NoEntity =>
           (~wrote_transform /\ translation = old_translation)

\* The sphere dragged along the steep ray down has been held at y = 0.5
C25_Witness ==
    /\ wrote_transform
    /\ cursor_position = Vec3(0, -10, -3)
    /\ translation[2] = GroundY
    /\ old_translation[2] > GroundY

----------------------------------------------------------------------------
(* Properties of the dock                                                  *)

\* Each dynamic panel is a tab of the tree at most once
EachPanelAtMostOnce ==
    \A panel \in DynamicPanels : TabCount(dock_tree, panel) <= 1

\* The frame just taken clicked the entry of the panel, and flipped
\* is_panel_open for it and for no other panel
ClickFlipsOnly(panel) ==
    menu_click' = panel =>
        /\ is_panel_open(dock_tree', focused_leaf', panel)
               # is_panel_open(dock_tree, focused_leaf, panel)
        /\ \A other \in (DynamicPanels \cup PermanentPanels) \ {panel} :
               is_panel_open(dock_tree', focused_leaf', other)
                   = is_panel_open(dock_tree, focused_leaf, other)

\* C26: from a dock tree with each dynamic panel at most once, each dynamic
\* panel stays a tab at most once whatever entries of the Windows menu are
\* clicked, and a click on the entry of a panel flips is_panel_open for
\* that panel and leaves the open status of every other panel as it was.
C26_MenuClickTogglesOnePanel ==
    /\ []EachPanelAtMostOnce
    /\ [][\A panel \in DynamicPanels : ClickFlipsOnly(panel)]_vars

\* Modes, closed from its own leaf, was opened again by the menu as a
\* second tab of the leaf of a placeholder, with the Inspector open too
C26_Witness ==
    /\ menu_click = "Modes"
    /\ \E i \in DOMAIN dock_tree : dock_tree[i].tabs = <<"LeftPanel", "Modes">>
    /\ is_panel_open(dock_tree, focused_leaf, "Inspector")

\* C27: the placeholder panels and the Viewport are never closeable and
\* never allowed in floating windows, and each stays a tab of the main
\* surface of the dock tree whatever is clicked in the Windows menu, a
\* panel entry or Hide All / Show All.
C27_PermanentPanelsStay ==
    \A panel \in PermanentPanels :
        /\ ~is_closeable(panel)
        /\ ~allowed_in_windows(panel)
        /\ TabCount(dock_tree, panel) = 1
        /\ find_tab(dock_tree, panel) \in MainLeaves(dock_tree)

\* Hide All was clicked after the menu closed a dynamic panel that shared
\* its leaf with the Viewport
C27_Witness ==
    /\ menu_click = HideAll
    /\ all_hidden
    /\ \A panel \in DynamicPanels : ~is_panel_open(dock_tree, focused_leaf, panel)
    /\ \E i \in DOMAIN dock_tree : dock_tree[i].tabs = <<"Viewport">>
    /\ focused_leaf # 0
    /\ dock_tree[focused_leaf].tabs = <<"Viewport">>

----------------------------------------------------------------------------
(* Properties of the modes panel                                           *)

\* C28: Copy Into takes the selected mode s as the source, which stays the
\* selected mode while copy-into mode lasts; the next selection of a mode
\* t ends copy-into mode, and for t other than s leaves mode t equal to
\* mode s in every field but the name, which stays the one t had, and
\* every other mode as it was; for t = s it leaves every mode as it was.
C28_CopyIntoCopiesAllButName ==
    /\ [](copy_into_dialog_open => copy_into_source = selected_mode_index)
    /\ [][/\ mode_event' = "copy_into" =>
                 /\ copy_into_dialog_open'
                 /\ copy_into_source' = selected_mode_index
          /\ (mode_event' = "select" /\ copy_into_dialog_open) =>
                 LET s == copy_into_source
                     t == selected_mode_index'
                 IN  /\ ~copy_into_dialog_open'
                     /\ t # s =>
                            /\ modes'[t] = [modes[s] EXCEPT !.name = modes[t].name]
                            /\ modes'[t] = [modes'[s] EXCEPT !.name = modes[t].name]
                            /\ \A k \in DOMAIN modes \ {t} : modes'[k] = modes[k]
                     /\ t = s => modes' = modes]_vars

\* Mode 0, its child A set to mode 2, was copied into mode 1, which has its
\* own name and everything else of mode 0
C28_Witness ==
    /\ mode_event = "select"
    /\ ~copy_into_dialog_open
    /\ selected_mode_index = 1
    /\ modes[0].child_a.mode_number = 2
    /\ modes[1] = [modes[0] EXCEPT !.name = ModeName(1)]

\* C29: Reset leaves the selected mode i with the fields of
\* ModeSettings::default(), but for its name and colour, which stay, and
\* the mode numbers of both children, which are i; every other mode stays
\* as it was.
C29_ResetKeepsNameColorAndSelf ==
    [][mode_event' = "reset" =>
           LET i == selected_mode_index
           IN  /\ modes'[i] = [ModeSettingsDefault EXCEPT
                                  !.name = modes[i].name,
                                  !.color = modes[i].color,
                                  !.child_a.mode_number = i,
                                  !.child_b.mode_number = i]
               /\ \A k \in DOMAIN modes \ {i} : modes'[k] = modes[k]]_vars

\* Mode 1, renamed, recoloured and with other children, was reset
C29_Witness ==
    /\ mode_event = "reset"
    /\ selected_mode_index = 1
    /\ modes[1].name \in TypedNames
    /\ modes[1].default_name = Untitled
    /\ modes[1].child_a = [mode_number |-> 1, keep_adhesion |-> TRUE]
    /\ modes[0] = GenomeDataDefault[0]

\* C30: from GenomeData::default(), whatever modes are selected, copied
\* into or reset and whatever the child-mode dropdowns are set to, the
\* number of modes stays the one of GenomeData::default() and the mode
\* numbers of both children of every mode are indices of modes, so that
\* the lookups of the child-mode display are in bounds.
C30_ChildModesInBounds ==
    /\ ModesLen(modes) = NumModes
    /\ DOMAIN modes = ModeIndices
    /\ \A i \in DOMAIN modes : ChildLookupsInBounds(modes, i)

\* A mode whose children were set to the last mode by the dropdowns was
\* copied into another mode
C30_Witness ==
    /\ mode_event = "select"
    /\ mode_frames = MaxModeFrames
    /\ \E t \in DOMAIN modes :
           /\ t # NumModes - 1
           /\ t = selected_mode_index
           /\ modes[t].default_name # ModeName(t)
           /\ modes[t].child_a.mode_number = NumModes - 1
           /\ modes[t].child_b.mode_number = NumModes - 1
====
